---- MODULE Spec2Model ----
(***************************************************************************)
(* Redux store of zeezee-cinema: the movieCache and movieDetails reducers, *)
(* the exported action creators and the three thunks fetchMovieDetail,     *)
(* fetchMovieFullDetails and fetchMoreReviews.                             *)
(*                                                                         *)
(* JavaScript values are tagged records [kind, n] so that values of        *)
(* different JavaScript types can be stored in the same field and compared. *)
(* Objects used as maps (details, lastFetched, loading, reviews) are       *)
(* functions whose domain is the set of property keys that are present.    *)
(***************************************************************************)
EXTENDS Integers, Sequences, FiniteSets, Bags, TLC

\* ------------------------------------------------------------------ bounds
MaxTicks == 1       \* how often the clock advances
MaxPending == 2     \* fetchMovieDetail promises unsettled at one time
MaxCalls == 2       \* fetchMovieFullDetails and fetchMoreReviews invocations
                    \*   started in one behaviour
MaxPage == 3        \* page numbers / total_pages the remote can answer with
PerPage == 2        \* reviews on one page of the remote

MovieIds == {1, 2}
MaxMovies == 2      \* entries in a response to MovieList
MaxBanners == 6     \* entries in a response to BannerCarousel

\* ------------------------------------------------------- JavaScript values
Undefined == [kind |-> "undefined", n |-> 0]
Null == [kind |-> "null", n |-> 0]
JSTrue == [kind |-> "boolean", n |-> 1]
JSFalse == [kind |-> "boolean", n |-> 0]
NaN == [kind |-> "NaN", n |-> 0]
Num(i) == [kind |-> "number", n |-> i]
\* an opaque JSON object answered by the remote, identified by n
Obj(i) == [kind |-> "object", n |-> i]
\* error.message strings
HttpErrorMessage == [kind |-> "string", n |-> 1]
NetworkErrorMessage == [kind |-> "string", n |-> 2]
ReferenceErrorMessage == [kind |-> "string", n |-> 3]
RemoteErrors == {HttpErrorMessage, NetworkErrorMessage}

\* a string with its text
Text(s) == [kind |-> "text", s |-> s]

\* ToBoolean: undefined, null, NaN, 0, false and "" are falsy
Truthy(v) ==
    CASE v.kind \in {"undefined", "null", "NaN"} -> FALSE
      [] v.kind \in {"number", "boolean"} -> v.n # 0
      [] v.kind = "text" -> v.s # ""
      [] OTHER -> TRUE

\* a - b on numbers; NaN when an operand is undefined or not a number
Minus(a, b) ==
    IF a.kind = "number" /\ b.kind = "number" THEN Num(a.n - b.n) ELSE NaN

\* a < b; every comparison with NaN is false
LessThan(a, b) ==
    a.kind = "number" /\ b.kind = "number" /\ a.n < b.n

\* the property key a value is converted to when used as obj[value]
PropertyKey(v) ==
    IF v.kind = "number" THEN ToString(v.n) ELSE v.kind

EmptyObj == [k \in {} |-> Undefined]

\* obj[key]: undefined when the property is absent
Get(obj, key) == IF key \in DOMAIN obj THEN obj[key] ELSE Undefined

\* { ...obj, [key]: val }
Put(obj, key, val) ==
    [k \in (DOMAIN obj) \cup {key} |-> IF k = key THEN val ELSE obj[k]]

\* const { [key]: removed, ...rest } = obj
Rest(obj, key) == [k \in (DOMAIN obj) \ {key} |-> obj[k]]

\* ------------------------------------------------------------ action types
FETCH_MOVIE_DETAIL_REQUEST == "FETCH_MOVIE_DETAIL_REQUEST"
FETCH_MOVIE_DETAIL_SUCCESS == "FETCH_MOVIE_DETAIL_SUCCESS"
FETCH_MOVIE_DETAIL_FAILURE == "FETCH_MOVIE_DETAIL_FAILURE"
CLEAR_MOVIE_CACHE == "CLEAR_MOVIE_CACHE"
REMOVE_FROM_CACHE == "REMOVE_FROM_CACHE"
FETCH_MOVIE_FULL_DETAILS_REQUEST == "FETCH_MOVIE_FULL_DETAILS_REQUEST"
FETCH_MOVIE_FULL_DETAILS_SUCCESS == "FETCH_MOVIE_FULL_DETAILS_SUCCESS"
FETCH_MOVIE_FULL_DETAILS_FAILURE == "FETCH_MOVIE_FULL_DETAILS_FAILURE"
FETCH_MORE_REVIEWS_REQUEST == "FETCH_MORE_REVIEWS_REQUEST"
FETCH_MORE_REVIEWS_SUCCESS == "FETCH_MORE_REVIEWS_SUCCESS"
FETCH_MORE_REVIEWS_FAILURE == "FETCH_MORE_REVIEWS_FAILURE"
CLEAR_CURRENT_MOVIE == "CLEAR_CURRENT_MOVIE"

CACHE_DURATION == 3600000

VARIABLES
    movieCache,     \* state.movieCache
    movieDetails,   \* state.movieDetails
    now,            \* Date.now()
    ticks,          \* number of clock advances so far
    calls,          \* bag of thunk invocations that have not finished yet
    started,        \* number of fetchMovieFullDetails and fetchMoreReviews
                    \*   invocations started so far
    fetched,        \* per key: value and time of the last dispatched success
                    \*   since the key was last cleared or removed
    merged,         \* per movie: the review pages answered by the remote, in
                    \*   completion order, since the last CLEAR_CURRENT_MOVIE
    last,           \* the operation performed by the latest step
    http,           \* the latest call of makeRequest
    img,            \* the latest call of an image helper and its result
    view            \* the list component on the page: its props and state

vars == <<movieCache, movieDetails, now, ticks, calls, started, fetched,
          merged, last, http, img, view>>

\* --------------------------------------------------------- action creators
fetchMovieDetailRequest(movieId) ==
    [type |-> FETCH_MOVIE_DETAIL_REQUEST, payload |-> [movieId |-> movieId]]

fetchMovieDetailSuccess(movieId, data) ==
    [type |-> FETCH_MOVIE_DETAIL_SUCCESS,
     payload |-> [movieId |-> movieId, data |-> data]]

fetchMovieDetailFailure(movieId, error) ==
    [type |-> FETCH_MOVIE_DETAIL_FAILURE,
     payload |-> [movieId |-> movieId, error |-> error]]

clearMovieCache == [type |-> CLEAR_MOVIE_CACHE, payload |-> Undefined]

removeFromCache(movieId) == [type |-> REMOVE_FROM_CACHE, payload |-> movieId]

clearCurrentMovie == [type |-> CLEAR_CURRENT_MOVIE, payload |-> Undefined]

\* -------------------------------------------------------- movieCacheReducer
movieCacheInitialState ==
    [details |-> EmptyObj, lastFetched |-> EmptyObj, loading |-> EmptyObj,
     error |-> Null]

\* a request case that forgets the flags of the other keys
cacheOnRequest_dropsOthers(state, action) ==
    [state EXCEPT
        !.loading = Put(EmptyObj,
                        PropertyKey(action.payload.movieId), JSTrue),
        !.error = Null]

cacheOnRequest(state, action) ==
    [state EXCEPT
        !.loading = Put(state.loading,
                        PropertyKey(action.payload.movieId), JSTrue),
        !.error = Null]

\* the entry written under details is Date.now(); lastFetched is not written
cacheOnSuccess(state, action) ==
    [state EXCEPT
        !.details = Put(state.details,
                        PropertyKey(action.payload.movieId), Num(now)),
        !.loading = Put(state.loading,
                        PropertyKey(action.payload.movieId), JSFalse)]

\* a failure case that also drops the entry of the key
cacheOnFailure_dropsEntry(state, action) ==
    [state EXCEPT
        !.details = Rest(state.details, PropertyKey(action.payload.movieId)),
        !.loading = Put(state.loading,
                        PropertyKey(action.payload.movieId), JSFalse),
        !.error = action.payload.error]

cacheOnFailure(state, action) ==
    [state EXCEPT
        !.loading = Put(state.loading,
                        PropertyKey(action.payload.movieId), JSFalse),
        !.error = action.payload.error]

cacheOnClear(state, action) ==
    [state EXCEPT !.details = EmptyObj, !.lastFetched = EmptyObj]

cacheOnRemove(state, action) ==
    [state EXCEPT
        !.details = Rest(state.details, PropertyKey(action.payload)),
        !.lastFetched = Rest(state.lastFetched, PropertyKey(action.payload))]

movieCacheReducer(state, action) ==
    IF action.type = FETCH_MOVIE_DETAIL_REQUEST THEN
        cacheOnRequest(state, action)
    ELSE IF action.type = FETCH_MOVIE_DETAIL_SUCCESS THEN
        cacheOnSuccess(state, action)
    ELSE IF action.type = FETCH_MOVIE_DETAIL_FAILURE THEN
        cacheOnFailure(state, action)
    ELSE IF action.type = CLEAR_MOVIE_CACHE THEN
        cacheOnClear(state, action)
    ELSE IF action.type = REMOVE_FROM_CACHE THEN
        cacheOnRemove(state, action)
    ELSE state

\* ------------------------------------------------------ movieDetailsReducer
movieDetailsInitialState ==
    [current |-> Null, reviews |-> EmptyObj, loading |-> JSFalse,
     reviewsLoading |-> JSFalse, error |-> Null]

detailsOnFullRequest(state, action) ==
    [state EXCEPT !.loading = JSTrue, !.error = Null]

\* the case that follows FETCH_MOVIE_FULL_DETAILS_REQUEST; its label is
\* FETCH_MORE_REVIEWS_SUCCESS and it reads payload.id and
\* payload.reviewsTotalPages
firstCaseKey(action) == PropertyKey(Get(action.payload, "id"))

detailsOnFirstSuccessCase(state, action) ==
    [state EXCEPT
        !.current = action.payload,
        !.reviews = Put(state.reviews,
                        firstCaseKey(action),
                        [items |-> action.payload.reviews,
                         page |-> Num(1),
                         totalPages |->
                             Get(action.payload, "reviewsTotalPages")]),
        !.loading = JSFalse]

detailsOnFullFailure(state, action) ==
    [state EXCEPT !.loading = JSFalse, !.error = action.payload.error]

\* writes the property reviesLoading
detailsOnMoreRequest(state, action) == Put(state, "reviesLoading", JSTrue)

\* state.reviews[movieId]?.items || []
existingReviews(state, movieId) ==
    IF PropertyKey(movieId) \in DOMAIN state.reviews
    THEN state.reviews[PropertyKey(movieId)].items
    ELSE << >>

\* the second case labelled FETCH_MORE_REVIEWS_SUCCESS
detailsOnSecondSuccessCase(state, action) ==
    [state EXCEPT
        !.reviews = Put(state.reviews,
                        PropertyKey(action.payload.movieId),
                        [items |-> existingReviews(state,
                                                   action.payload.movieId)
                                   \o action.payload.reviews,
                         page |-> action.payload.page,
                         totalPages |-> action.payload.totalPages]),
        !.reviewsLoading = JSFalse]

detailsOnMoreFailure(state, action) == [state EXCEPT !.reviewsLoading = JSFalse]

detailsOnClearCurrent(state, action) == [state EXCEPT !.current = Null]

\* a switch statement runs the first case whose label equals action.type
movieDetailsReducer(state, action) ==
    IF action.type = FETCH_MOVIE_FULL_DETAILS_REQUEST THEN
        detailsOnFullRequest(state, action)
    ELSE IF action.type = FETCH_MORE_REVIEWS_SUCCESS THEN
        detailsOnFirstSuccessCase(state, action)
    ELSE IF action.type = FETCH_MOVIE_FULL_DETAILS_FAILURE THEN
        detailsOnFullFailure(state, action)
    ELSE IF action.type = FETCH_MORE_REVIEWS_REQUEST THEN
        detailsOnMoreRequest(state, action)
    ELSE IF action.type = FETCH_MORE_REVIEWS_SUCCESS THEN
        detailsOnSecondSuccessCase(state, action)
    ELSE IF action.type = FETCH_MORE_REVIEWS_FAILURE THEN
        detailsOnMoreFailure(state, action)
    ELSE IF action.type = CLEAR_CURRENT_MOVIE THEN
        detailsOnClearCurrent(state, action)
    ELSE state

\* combineReducers: every action is given to every reducer
rootReducer(state, action) ==
    [movieCache |-> movieCacheReducer(state.movieCache, action),
     movieDetails |-> movieDetailsReducer(state.movieDetails, action)]

\* store.dispatch of a plain action
dispatch(action) ==
    LET next == rootReducer([movieCache |-> movieCache,
                             movieDetails |-> movieDetails], action)
    IN  /\ movieCache' = next.movieCache
        /\ movieDetails' = next.movieDetails

\* ------------------------------------------------------------ remote client
\* the reviews the remote holds on page p of movie m
ReviewPage(m, p) ==
    [i \in 1..PerPage |-> [kind |-> "review", n |-> 100 * m + 10 * p + i]]

\* the detail object the remote holds for movie m
DetailObject(m) == Obj(m)

\* a successful answer of getMovieReviews(m, p)
ReviewsResponse(m, p, total) ==
    [results |-> ReviewPage(m, p), page |-> Num(p), total_pages |-> Num(total)]

\* ------------------------------------------------------------ Remote Client
\* String(v), as in template literals and URLSearchParams.append
JSString(v) ==
    CASE v.kind = "text" -> v.s
      [] v.kind = "number" -> ToString(v.n)
      [] v.kind = "boolean" -> (IF v.n # 0 THEN "true" ELSE "false")
      [] OTHER -> v.kind

\* JSON.stringify of the request body { value: n }
JSONstringify(body) == Text("{\"value\":" \o ToString(body.n) \o "}")

\* a parameter whose default applies when the argument is omitted
DefaultParam(arg, default) == IF arg = Undefined THEN default ELSE arg

\* the fields the constructor of TMDBApiBase sets
apiKey == "VITE_TMDB_API_KEY"
baseUrl == "https://api.themoviedb.org/3"
imageBaseUrl == "https://image.tmdb.org/t/p"

\* response.json() fails on a body that is not JSON
ParseErrorMessage == [kind |-> "string", n |-> 4]

\* one own property of a params object; Object.keys keeps insertion order
Param(key, value) == [key |-> key, value |-> value]

\* the callback of forEach: append the entry unless its value is undefined or
\* null, converted to a string
appendParam_truthyOnly(searchParams, p) ==
    IF Truthy(p.value)
    THEN Append(searchParams, [key |-> p.key, value |-> JSString(p.value)])
    ELSE searchParams

appendParam(searchParams, p) ==
    IF p.value # Undefined /\ p.value # Null
    THEN Append(searchParams, [key |-> p.key, value |-> JSString(p.value)])
    ELSE searchParams

\* Object.keys(params).forEach
RECURSIVE appendParams(_, _)
appendParams(searchParams, params) ==
    IF params = << >>
    THEN searchParams
    ELSE appendParams(appendParam(searchParams, Head(params)), Tail(params))

\* the URL of a request: only a GET request gets a query
requestUrl(endpoint, params, method) ==
    [href |-> baseUrl \o endpoint,
     searchParams |->
         IF method = "GET"
         THEN appendParams(<<[key |-> "api_key", value |-> apiKey]>>, params)
         ELSE << >>]

\* the options handed to fetch
requestOptions(method, body) ==
    [method |-> method,
     headers |-> [ContentType |-> "application/json",
                  Authorization |-> "Bearer " \o apiKey],
     body |-> IF Truthy(body) THEN JSONstringify(body) ELSE Undefined]

NoResponse == [arrived |-> "no", status |-> 0]

\* no call of makeRequest has been made
NoRequest ==
    [pc |-> "idle", endpoint |-> "", params |-> << >>, method |-> "GET",
     url |-> [href |-> "", searchParams |-> << >>],
     options |-> requestOptions("GET", Null), fetches |-> 0,
     response |-> NoResponse, value |-> Undefined, error |-> Undefined]

\* makeRequest up to its await of fetch
makeRequest(endpoint, params, method, body) ==
    [pc |-> "awaitFetch", endpoint |-> endpoint, params |-> params,
     method |-> method, url |-> requestUrl(endpoint, params, method),
     options |-> requestOptions(method, body), fetches |-> 1,
     response |-> NoResponse, value |-> Undefined, error |-> Undefined]

\* response.ok
Ok(status) == status \in 200..299

\* makeRequest after fetch has answered with a response
onResponse_ignoresStatus(h, status) ==
    [h EXCEPT !.pc = "awaitJson",
              !.response = [arrived |-> "yes", status |-> status]]

onResponse(h, status) ==
    IF ~Ok(status)
    THEN [h EXCEPT !.pc = "thrown",
                   !.response = [arrived |-> "yes", status |-> status],
                   !.error = HttpErrorMessage]
    ELSE [h EXCEPT !.pc = "awaitJson",
                   !.response = [arrived |-> "yes", status |-> status]]

\* the params object rateMovie builds
rateMovieParams(sessionId, guestSessionId) ==
    (IF Truthy(sessionId)
     THEN <<Param("session_id", sessionId)>> ELSE << >>)
    \o (IF Truthy(guestSessionId)
        THEN <<Param("guest_session_id", guestSessionId)>> ELSE << >>)

\* ----------------------------------------------------------------- utils
getImageUrl_nullOnly(path, size) ==
    IF path = Undefined \/ path = Null
    THEN Null
    ELSE Text(imageBaseUrl \o "/"
                  \o JSString(DefaultParam(size, Text("w500")))
                  \o JSString(path))

getImageUrl(path, size) ==
    IF ~Truthy(path)
    THEN Null
    ELSE Text(imageBaseUrl \o "/"
                  \o JSString(DefaultParam(size, Text("w500")))
                  \o JSString(path))

getBackdropUrl(path, size) ==
    getImageUrl(path, DefaultParam(size, Text("w1280")))

getPosterUrl(path, size) ==
    getImageUrl(path, DefaultParam(size, Text("w500")))

getProfileUrl(path, size) ==
    getImageUrl(path, DefaultParam(size, Text("w185")))

getLogoUrl(path, size) ==
    getImageUrl(path, DefaultParam(size, Text("w185")))

getStillUrl(path, size) ==
    getImageUrl(path, DefaultParam(size, Text("w300")))

\* no image helper has been called
NoImage == [fn |-> "none", path |-> Undefined, size |-> Undefined,
            result |-> Undefined]

\* ---------------------------------------------------------- list components
\* error.message of a property read on undefined or null
TypeErrorMessage == [kind |-> "string", n |-> 5]
\* the messages of the two errors fetchMovies throws itself
InvalidResponseMessage == [kind |-> "string", n |-> 6]
EmptyResultMessage == [kind |-> "string", n |-> 7]

\* an array, and an object with a results property
Arr(items) == [kind |-> "array", items |-> items]
Paged(results) == [kind |-> "paged", results |-> results]

\* a || b
Or(a, b) == IF Truthy(a) THEN a ELSE b

\* the props listTitle of the home page, and one no branch knows
ListTitles ==
    {"Now Playing", "Upcoming Releases", "Popular Movies", "Top Rated",
     "Trending"}

\* the section title MovieList assigns to listTitle after its request; the
\* Korean literal is written as the title it translates with a language tag
Localized(listTitle) == "ko:" \o listTitle

\* the method of the movie service MovieList awaits for a listTitle
movieListMethod(listTitle) ==
    CASE listTitle = "Now Playing" -> "getNowPlayingMovies"
      [] listTitle = "Upcoming Releases" -> "getUpcomingMovies"
      [] listTitle = "Popular Movies" -> "getPopularMovies"
      [] listTitle = "Top Rated" -> "getTopRatedMovies"
      [] OTHER -> "none"

\* the same in the second MovieList of the repository
variantListMethod(listTitle) ==
    CASE listTitle = "Now Playing" -> "getNowPlayingMovies"
      [] listTitle = "Upcoming Releases" -> "getUpcomingMovies"
      [] listTitle = "Popular Movies" -> "getTopRatedMovies"
      [] listTitle = "Top Rated" -> "getPopularMovies"
      [] OTHER -> "none"

\* the method each component awaits; the carousel has no listTitle
listMethod(component, listTitle) ==
    CASE component = "BannerCarousel" -> "getUpcomingMovies"
      [] component = "MovieList" -> movieListMethod(listTitle)
      [] OTHER -> variantListMethod(listTitle)

\* the endpoint each method of createMovies requests
endpointOf(method) ==
    CASE method = "getPopularMovies" -> "/movie/popular"
      [] method = "getTopRatedMovies" -> "/movie/top_rated"
      [] method = "getNowPlayingMovies" -> "/movie/now_playing"
      [] method = "getUpcomingMovies" -> "/movie/upcoming"
      [] OTHER -> ""

\* the image size each component builds its img from
slideSize(component) ==
    IF component = "BannerCarousel" THEN "w1280" ELSE "w300"

\* .slice(0, 5) of the carousel
SliceLimit == 5

\* .filter((movie) => movie.backdrop_path)
RECURSIVE withBackdrop(_)
withBackdrop(movies) ==
    IF movies = << >>
    THEN << >>
    ELSE (IF Truthy(Head(movies).backdrop_path)
          THEN <<Head(movies)>> ELSE << >>) \o withBackdrop(Tail(movies))

\* the filter, the slice of the carousel, and the map to slides
slidesOf(component, movies) ==
    LET kept == withBackdrop(movies)
        cut == IF component = "BannerCarousel" /\ Len(kept) > SliceLimit
               THEN SubSeq(kept, 1, SliceLimit) ELSE kept
    IN  [i \in 1..Len(cut) |->
            [id |-> cut[i].id,
             img |-> "https://image.tmdb.org/t/p/" \o slideSize(component)
                        \o JSString(cut[i].backdrop_path)]]

\* response.results || response || []
movieDataOf(response) ==
    Or(IF response.kind = "paged" THEN response.results ELSE Undefined,
       Or(response, Arr(<< >>)))

\* the component after setMovies / setBanners or after setError
stored(v, slides) == [v EXCEPT !.items = slides]
failed(v, message) == [v EXCEPT !.error = message]

\* fetchMovies from the answer of the movie service to the end of its try
\* block or its catch block
onListResponse_storesEmpty(v, response) ==
    IF response = Null \/ response = Undefined
    THEN failed(v, TypeErrorMessage)
    ELSE IF movieDataOf(response).kind # "array"
    THEN failed(v, InvalidResponseMessage)
    ELSE stored(v, slidesOf(v.component, movieDataOf(response).items))

onListResponse(v, response) ==
    IF response = Null \/ response = Undefined
    THEN failed(v, TypeErrorMessage)
    ELSE IF movieDataOf(response).kind # "array"
    THEN failed(v, InvalidResponseMessage)
    ELSE IF Len(slidesOf(v.component, movieDataOf(response).items)) = 0
    THEN failed(v, EmptyResultMessage)
    ELSE stored(v, slidesOf(v.component, movieDataOf(response).items))

\* the finally block of the carousel; MovieList keeps no loading state
finallyOf(v) ==
    IF v.component = "BannerCarousel" THEN [v EXCEPT !.loading = JSFalse]
    ELSE v

\* fetchMovies up to its await: with no branch for listTitle the response is
\* undefined and reading its results throws at once
startFetch(v, step) ==
    LET method == listMethod(v.component, v.listTitle)
        begun == [v EXCEPT !.step = step, !.error = Null,
                           !.called = method,
                           !.endpoint = endpointOf(method),
                           !.response = Undefined,
                           !.loading = IF v.component = "BannerCarousel"
                                       THEN JSTrue ELSE v.loading]
    IN  IF method = "none"
        THEN finallyOf(failed(begun, TypeErrorMessage))
        ELSE [begun EXCEPT !.pc = "awaiting"]

\* no component is mounted
NoView ==
    [component |-> "none", prop |-> "", listTitle |-> "", step |-> "none",
     pc |-> "idle", called |-> "none", endpoint |-> "",
     response |-> Undefined, items |-> << >>, error |-> Null,
     loading |-> Undefined]

\* ------------------------------------------------------------------- thunks
NoCall == [thunk |-> "none", movieId |-> 0, page |-> 0,
           forceRefresh |-> FALSE, pc |-> "none", held |-> Undefined]

Event(op, m, p, force, outcome, value) ==
    [op |-> op, movieId |-> m, page |-> p, force |-> force,
     outcome |-> outcome, value |-> value]

\* fetchMovieDetail up to the point where its promise settles: a fresh cached
\* entry is returned; otherwise the thunk calls dispatch, which is not bound
\* (the dispatcher is received as dispatchEvent), and the ReferenceError
\* rejects the promise before the try block is entered
fetchMovieDetail(state, movieId, forceRefresh) ==
    LET cached == Get(state.movieCache.details, PropertyKey(movieId))
        lastFetched == Get(state.movieCache.lastFetched, PropertyKey(movieId))
    IN  IF /\ ~forceRefresh
           /\ Truthy(cached)
           /\ LessThan(Minus(Num(now), lastFetched), Num(CACHE_DURATION))
        THEN [pc |-> "resolved", held |-> cached]
        ELSE [pc |-> "rejected", held |-> ReferenceErrorMessage]

Init ==
    /\ movieCache = movieCacheInitialState
    /\ movieDetails = movieDetailsInitialState
    /\ now = 1
    /\ ticks = 0
    /\ calls = EmptyBag
    /\ started = 0
    /\ fetched = EmptyObj
    /\ merged = [m \in MovieIds |-> << >>]
    /\ last = Event("init", 0, 0, FALSE, "none", Undefined)
    /\ http = NoRequest
    /\ img = NoImage
    /\ view = NoView

\* time passes
Tick(d) ==
    /\ ticks < MaxTicks
    /\ ticks' = ticks + 1
    /\ now' = now + d
    /\ last' = Event("tick", 0, 0, FALSE, "none", Undefined)
    /\ UNCHANGED <<view, http, img, movieCache, movieDetails, calls, started, fetched, merged>>

\* store.dispatch(fetchMovieDetail({movieId: m, forceRefresh: force}))
CallFetchMovieDetail(m, force) ==
    /\ BagCardinality(calls) < MaxPending
    /\ LET r == fetchMovieDetail([movieCache |-> movieCache,
                                  movieDetails |-> movieDetails],
                                 Num(m), force)
       IN  /\ calls' = calls (+) SetToBag(
                 {[NoCall EXCEPT !.thunk = "fetchMovieDetail",
                                 !.movieId = m, !.forceRefresh = force,
                                 !.pc = r.pc, !.held = r.held]})
           /\ last' = Event("fetchMovieDetail", m, 0, force, r.pc, r.held)
    /\ UNCHANGED <<view, http, img, movieCache, movieDetails, now, ticks, started, fetched,
                   merged>>

\* the caller of fetchMovieDetail observes the settled promise
SettleFetchMovieDetail(c) ==
    /\ c.thunk = "fetchMovieDetail"
    /\ calls' = calls (-) SetToBag({c})
    /\ last' = Event("settled", c.movieId, 0, c.forceRefresh, c.pc, c.held)
    /\ UNCHANGED <<view, http, img, movieCache, movieDetails, now, ticks, started, fetched,
                   merged>>

\* store.dispatch(fetchMovieDetailRequest(m))
DispatchRequest(m) ==
    /\ dispatch(fetchMovieDetailRequest(Num(m)))
    /\ last' = Event(FETCH_MOVIE_DETAIL_REQUEST, m, 0, FALSE, "none", Undefined)
    /\ UNCHANGED <<view, http, img, now, ticks, calls, started, fetched, merged>>

\* store.dispatch(fetchMovieDetailSuccess(m, data))
DispatchSuccess(m) ==
    /\ dispatch(fetchMovieDetailSuccess(Num(m), DetailObject(m)))
    /\ fetched' = Put(fetched, PropertyKey(Num(m)),
                      [value |-> DetailObject(m), at |-> now])
    /\ last' = Event(FETCH_MOVIE_DETAIL_SUCCESS, m, 0, FALSE, "none",
                     DetailObject(m))
    /\ UNCHANGED <<view, http, img, now, ticks, calls, started, merged>>

\* store.dispatch(fetchMovieDetailFailure(m, message))
DispatchFailure(m, e) ==
    /\ dispatch(fetchMovieDetailFailure(Num(m), e))
    /\ last' = Event(FETCH_MOVIE_DETAIL_FAILURE, m, 0, FALSE, "none", e)
    /\ UNCHANGED <<view, http, img, now, ticks, calls, started, fetched, merged>>

\* store.dispatch(clearMovieCache())
DispatchClear ==
    /\ dispatch(clearMovieCache)
    /\ fetched' = EmptyObj
    /\ last' = Event(CLEAR_MOVIE_CACHE, 0, 0, FALSE, "none", Undefined)
    /\ UNCHANGED <<view, http, img, now, ticks, calls, started, merged>>

\* store.dispatch(removeFromCache(m))
DispatchRemove(m) ==
    /\ dispatch(removeFromCache(Num(m)))
    /\ fetched' = Rest(fetched, PropertyKey(Num(m)))
    /\ last' = Event(REMOVE_FROM_CACHE, m, 0, FALSE, "none", Undefined)
    /\ UNCHANGED <<view, http, img, now, ticks, calls, started, merged>>

\* store.dispatch(fetchMovieFullDetails(m)): the request action is dispatched
\* and getMovieDetails is awaited
CallFetchMovieFullDetails(m) ==
    /\ started < MaxCalls
    /\ started' = started + 1
    /\ dispatch([type |-> FETCH_MOVIE_FULL_DETAILS_REQUEST,
                 payload |-> Undefined])
    /\ calls' = calls (+) SetToBag(
          {[NoCall EXCEPT !.thunk = "fetchMovieFullDetails",
                          !.movieId = m, !.pc = "awaitDetails"]})
    /\ last' = Event("fetchMovieFullDetails", m, 0, FALSE, "pending", Undefined)
    /\ UNCHANGED <<view, http, img, now, ticks, fetched, merged>>

\* getMovieDetails answers; getMovieReviews(movieId, 1) is awaited
FullDetailsGotDetails(c) ==
    /\ c.thunk = "fetchMovieFullDetails"
    /\ c.pc = "awaitDetails"
    /\ calls' = (calls (-) SetToBag({c})) (+) SetToBag(
          {[c EXCEPT !.pc = "awaitReviews", !.held = DetailObject(c.movieId)]})
    /\ last' = Event("getMovieDetails", c.movieId, 0, FALSE, "resolved",
                     DetailObject(c.movieId))
    /\ UNCHANGED <<view, http, img, movieCache, movieDetails, now, ticks, started, fetched,
                   merged>>

\* the payload of FETCH_MOVIE_FULL_DETAILS_SUCCESS:
\* { ...movieDetails, reviews: reviews.results,
\*   reviewsTotalPages: reviews.total_pages }
FullDetailsPayload(m, detail, response) ==
    [id |-> Num(m), detail |-> detail, reviews |-> response.results,
     reviewsTotalPages |-> response.total_pages]

\* getMovieReviews(movieId, 1) answers; the success action is dispatched
FullDetailsGotReviews(c, total) ==
    /\ c.thunk = "fetchMovieFullDetails"
    /\ c.pc = "awaitReviews"
    /\ LET payload == FullDetailsPayload(c.movieId, c.held,
                                         ReviewsResponse(c.movieId, 1, total))
       IN  /\ dispatch([type |-> FETCH_MOVIE_FULL_DETAILS_SUCCESS,
                        payload |-> payload])
           /\ last' = Event(FETCH_MOVIE_FULL_DETAILS_SUCCESS, c.movieId, 1,
                            FALSE, "resolved", payload)
    /\ calls' = calls (-) SetToBag({c})
    /\ merged' = [merged EXCEPT ![c.movieId] =
                     Append(@, [page |-> 1, totalPages |-> total,
                                via |-> "fetchMovieFullDetails"])]
    /\ UNCHANGED <<view, http, img, now, ticks, started, fetched>>

\* either remote call of fetchMovieFullDetails fails: the catch block
FullDetailsCatch(c, e) ==
    /\ c.thunk = "fetchMovieFullDetails"
    /\ c.pc \in {"awaitDetails", "awaitReviews"}
    /\ dispatch([type |-> FETCH_MOVIE_FULL_DETAILS_FAILURE,
                 payload |-> [error |-> e]])
    /\ calls' = calls (-) SetToBag({c})
    /\ last' = Event(FETCH_MOVIE_FULL_DETAILS_FAILURE, c.movieId, 0, FALSE,
                     "caught", e)
    /\ UNCHANGED <<view, http, img, now, ticks, started, fetched, merged>>

\* store.dispatch(fetchMoreReviews({movieId: m, page: p}))
CallFetchMoreReviews(m, p) ==
    /\ started < MaxCalls
    /\ started' = started + 1
    /\ dispatch([type |-> FETCH_MORE_REVIEWS_REQUEST, payload |-> Undefined])
    /\ calls' = calls (+) SetToBag(
          {[NoCall EXCEPT !.thunk = "fetchMoreReviews",
                          !.movieId = m, !.page = p, !.pc = "awaitReviews"]})
    /\ last' = Event("fetchMoreReviews", m, p, FALSE, "pending", Undefined)
    /\ UNCHANGED <<view, http, img, now, ticks, fetched, merged>>

\* the payload of FETCH_MORE_REVIEWS_SUCCESS
MoreReviewsPayload(m, response) ==
    [movieId |-> Num(m), reviews |-> response.results,
     page |-> response.page, totalPages |-> response.total_pages]

\* getMovieReviews(movieId, page) answers; the success action is dispatched
MoreReviewsGot(c, total) ==
    /\ c.thunk = "fetchMoreReviews"
    /\ c.pc = "awaitReviews"
    /\ LET payload == MoreReviewsPayload(c.movieId,
                          ReviewsResponse(c.movieId, c.page, total))
       IN  /\ dispatch([type |-> FETCH_MORE_REVIEWS_SUCCESS,
                        payload |-> payload])
           /\ last' = Event(FETCH_MORE_REVIEWS_SUCCESS, c.movieId, c.page,
                            FALSE, "resolved", payload)
    /\ calls' = calls (-) SetToBag({c})
    /\ merged' = [merged EXCEPT ![c.movieId] =
                     Append(@, [page |-> c.page, totalPages |-> total,
                                via |-> "fetchMoreReviews"])]
    /\ UNCHANGED <<view, http, img, now, ticks, started, fetched>>

\* getMovieReviews fails: the catch block of fetchMoreReviews
MoreReviewsCatch(c, e) ==
    /\ c.thunk = "fetchMoreReviews"
    /\ c.pc = "awaitReviews"
    /\ dispatch([type |-> FETCH_MORE_REVIEWS_FAILURE,
                 payload |-> [error |-> e]])
    /\ calls' = calls (-) SetToBag({c})
    /\ last' = Event(FETCH_MORE_REVIEWS_FAILURE, c.movieId, c.page, FALSE,
                     "caught", e)
    /\ UNCHANGED <<view, http, img, now, ticks, started, fetched, merged>>

\* store.dispatch(clearCurrentMovie())
DispatchClearCurrentMovie ==
    /\ dispatch(clearCurrentMovie)
    /\ merged' = [m \in MovieIds |-> << >>]
    /\ last' = Event(CLEAR_CURRENT_MOVIE, 0, 0, FALSE, "none", Undefined)
    /\ UNCHANGED <<view, http, img, now, ticks, calls, started, fetched>>

\* ------------------------------------------------- Remote Client, actions
\* the values a caller passes in a params object
ParamKeys == {"language", "page"}
ParamValues == {Undefined, Null, Num(0), JSFalse, Text(""), Text("ko-KR")}
ParamObjects ==
    {<< >>}
    \cup {<<Param(k, v)>> : k \in ParamKeys, v \in ParamValues}
    \cup {<<Param("language", v), Param("page", w)>> :
              v \in ParamValues, w \in ParamValues}
Methods == {"GET", "POST"}
Bodies == {Null, Obj(1)}
Statuses == {200, 201, 299, 300, 404, 500}
SessionIds == {Null, Text(""), Text("s1")}
Ratings == {8}

Settled == http.pc \in {"idle", "returned", "thrown"}

\* a caller calls makeRequest
CallMakeRequest(params, method, body) ==
    /\ Settled
    /\ http' = makeRequest("/movie/popular", params, method, body)
    /\ UNCHANGED <<view, movieCache, movieDetails, now, ticks, calls, started,
                   fetched, merged, last, img>>

\* getMovieReviews(movieId, page) with the default language
CallGetMovieReviews(m, p) ==
    /\ Settled
    /\ http' = makeRequest("/movie/" \o ToString(m) \o "/reviews",
                           <<Param("page", Num(p)),
                             Param("language", Text("en-US"))>>,
                           "GET", Null)
    /\ UNCHANGED <<view, movieCache, movieDetails, now, ticks, calls, started,
                   fetched, merged, last, img>>

\* rateMovie(movieId, rating, sessionId, guestSessionId)
CallRateMovie(m, rating, sessionId, guestSessionId) ==
    /\ Settled
    /\ http' = makeRequest("/movie/" \o ToString(m) \o "/rating",
                           rateMovieParams(sessionId, guestSessionId),
                           "POST", Obj(rating))
    /\ UNCHANGED <<view, movieCache, movieDetails, now, ticks, calls, started,
                   fetched, merged, last, img>>

\* fetch rejects: the transport failed
FetchRejects ==
    /\ http.pc = "awaitFetch"
    /\ http' = [http EXCEPT !.pc = "thrown",
                            !.response = [arrived |-> "failed", status |-> 0],
                            !.error = NetworkErrorMessage]
    /\ UNCHANGED <<view, movieCache, movieDetails, now, ticks, calls, started,
                   fetched, merged, last, img>>

\* fetch resolves with a response
FetchResponds(status) ==
    /\ http.pc = "awaitFetch"
    /\ http' = onResponse(http, status)
    /\ UNCHANGED <<view, movieCache, movieDetails, now, ticks, calls, started,
                   fetched, merged, last, img>>

\* response.json() resolves and makeRequest returns the data
JsonResolves ==
    /\ http.pc = "awaitJson"
    /\ http' = [http EXCEPT !.pc = "returned", !.value = Obj(1)]
    /\ UNCHANGED <<view, movieCache, movieDetails, now, ticks, calls, started,
                   fetched, merged, last, img>>

\* response.json() rejects and makeRequest rethrows
JsonRejects ==
    /\ http.pc = "awaitJson"
    /\ http' = [http EXCEPT !.pc = "thrown", !.error = ParseErrorMessage]
    /\ UNCHANGED <<view, movieCache, movieDetails, now, ticks, calls, started,
                   fetched, merged, last, img>>

\* ------------------------------------------------------------ utils, actions
ImagePaths == {Undefined, Null, Text(""), Num(0), JSFalse, NaN,
               Text("/abc.jpg"), Text("/p.png")}
ImageSizes == {Undefined, Text("w185"), Text("w500"), Text("original")}

Image(fn, path, size, result) ==
    [fn |-> fn, path |-> path, size |-> size, result |-> result]

CallGetImageUrl(path, size) ==
    /\ img' = Image("getImageUrl", path, size, getImageUrl(path, size))
    /\ UNCHANGED <<view, movieCache, movieDetails, now, ticks, calls, started,
                   fetched, merged, last, http>>

CallGetBackdropUrl(path, size) ==
    /\ img' = Image("getBackdropUrl", path, size, getBackdropUrl(path, size))
    /\ UNCHANGED <<view, movieCache, movieDetails, now, ticks, calls, started,
                   fetched, merged, last, http>>

CallGetPosterUrl(path, size) ==
    /\ img' = Image("getPosterUrl", path, size, getPosterUrl(path, size))
    /\ UNCHANGED <<view, movieCache, movieDetails, now, ticks, calls, started,
                   fetched, merged, last, http>>

CallGetProfileUrl(path, size) ==
    /\ img' = Image("getProfileUrl", path, size, getProfileUrl(path, size))
    /\ UNCHANGED <<view, movieCache, movieDetails, now, ticks, calls, started,
                   fetched, merged, last, http>>

CallGetLogoUrl(path, size) ==
    /\ img' = Image("getLogoUrl", path, size, getLogoUrl(path, size))
    /\ UNCHANGED <<view, movieCache, movieDetails, now, ticks, calls, started,
                   fetched, merged, last, http>>

CallGetStillUrl(path, size) ==
    /\ img' = Image("getStillUrl", path, size, getStillUrl(path, size))
    /\ UNCHANGED <<view, movieCache, movieDetails, now, ticks, calls, started,
                   fetched, merged, last, http>>

\* --------------------------------------------------- list components, actions
Components == {"MovieList", "MovieListVariant", "BannerCarousel"}

\* a movie of a response, with or without a backdrop image
Movie(i, backdrop) ==
    [id |-> i,
     backdrop_path |-> IF backdrop THEN Text("/b" \o ToString(i) \o ".jpg")
                       ELSE Null]

MovieLists(max) ==
    UNION {{[i \in 1..n |-> Movie(i, f[i])] : f \in [1..n -> BOOLEAN]} :
              n \in 0..max}

\* what the movie service can answer with
ListResponses(max) ==
    {Null, Obj(1), Paged(Null)}
        \cup {Paged(Arr(l)) : l \in MovieLists(max)}
        \cup {Arr(l) : l \in MovieLists(max)}

ResponsesFor(component) ==
    IF component = "BannerCarousel"
    THEN ListResponses(MaxBanners) ELSE ListResponses(MaxMovies)

\* the component is rendered for the first time and its effect runs
Mount(component, listTitle) ==
    /\ view.component = "none"
    /\ view' = startFetch(
          [NoView EXCEPT !.component = component,
                         !.prop = IF component = "BannerCarousel"
                                  THEN "" ELSE listTitle,
                         !.listTitle = IF component = "BannerCarousel"
                                       THEN "" ELSE listTitle,
                         !.loading = IF component = "BannerCarousel"
                                     THEN JSTrue ELSE Undefined],
          "mount")
    /\ UNCHANGED <<movieCache, movieDetails, now, ticks, calls, started,
                   fetched, merged, last, http, img>>

\* the parent renders MovieList with another listTitle: a new closure is
\* made and the effect runs again
ChangeTitle(listTitle) ==
    /\ view.component \in {"MovieList", "MovieListVariant"}
    /\ view.pc = "idle"
    /\ listTitle # view.prop
    /\ view' = startFetch([view EXCEPT !.prop = listTitle,
                                       !.listTitle = listTitle], "props")
    /\ UNCHANGED <<movieCache, movieDetails, now, ticks, calls, started,
                   fetched, merged, last, http, img>>

\* the retry button, shown in the error state and by the carousel also when
\* it has no banners
Retry ==
    /\ view.component # "none"
    /\ view.pc = "idle"
    /\ \/ Truthy(view.error)
       \/ view.component = "BannerCarousel" /\ Len(view.items) = 0
    /\ view' = startFetch(view, "retry")
    /\ UNCHANGED <<movieCache, movieDetails, now, ticks, calls, started,
                   fetched, merged, last, http, img>>

\* the movie service answers; MovieList then assigns the section title to
\* listTitle, the variable its memoized fetchMovies closes over
ListResolves(response) ==
    /\ view.pc = "awaiting"
    /\ response \in ResponsesFor(view.component)
    /\ view' = finallyOf(onListResponse(
          [view EXCEPT !.step = "resolved", !.pc = "idle",
                       !.response = response,
                       !.listTitle = IF view.component = "MovieList"
                                     THEN Localized(@) ELSE @],
          response))
    /\ UNCHANGED <<movieCache, movieDetails, now, ticks, calls, started,
                   fetched, merged, last, http, img>>

\* the movie service fails
ListRejects(e) ==
    /\ view.pc = "awaiting"
    /\ view' = finallyOf(failed(
          [view EXCEPT !.step = "rejected", !.pc = "idle"], e))
    /\ UNCHANGED <<movieCache, movieDetails, now, ticks, calls, started,
                   fetched, merged, last, http, img>>

\* ----------------------------------------------------------- specifications
TickSteps == {CACHE_DURATION - 1, CACHE_DURATION}

NextCache ==
    \/ \E d \in TickSteps : Tick(d)
    \/ \E m \in MovieIds, force \in BOOLEAN : CallFetchMovieDetail(m, force)
    \/ \E c \in BagToSet(calls) : SettleFetchMovieDetail(c)
    \/ \E m \in MovieIds : DispatchRequest(m)
    \/ \E m \in MovieIds : DispatchSuccess(m)
    \/ \E m \in MovieIds, e \in RemoteErrors : DispatchFailure(m, e)
    \/ DispatchClear
    \/ \E m \in MovieIds : DispatchRemove(m)

NextDetails ==
    \/ \E m \in MovieIds : CallFetchMovieFullDetails(m)
    \/ \E c \in BagToSet(calls) : FullDetailsGotDetails(c)
    \/ \E c \in BagToSet(calls), total \in 0..MaxPage :
          FullDetailsGotReviews(c, total)
    \/ \E c \in BagToSet(calls), e \in RemoteErrors : FullDetailsCatch(c, e)
    \/ \E m \in MovieIds, p \in 1..MaxPage : CallFetchMoreReviews(m, p)
    \/ \E c \in BagToSet(calls), total \in 0..MaxPage : MoreReviewsGot(c, total)
    \/ \E c \in BagToSet(calls), e \in RemoteErrors : MoreReviewsCatch(c, e)
    \/ DispatchClearCurrentMovie

NextRemote ==
    \/ \E params \in ParamObjects, method \in Methods, body \in Bodies :
          CallMakeRequest(params, method, body)
    \/ \E m \in MovieIds, p \in 1..MaxPage : CallGetMovieReviews(m, p)
    \/ \E m \in MovieIds, rating \in Ratings,
          sessionId \in SessionIds, guestSessionId \in SessionIds :
          CallRateMovie(m, rating, sessionId, guestSessionId)
    \/ FetchRejects
    \/ \E status \in Statuses : FetchResponds(status)
    \/ JsonResolves
    \/ JsonRejects
    \/ \E m \in MovieIds : DispatchRequest(m)

NextUtils ==
    \/ \E path \in ImagePaths, size \in ImageSizes :
          CallGetImageUrl(path, size)
    \/ \E path \in ImagePaths, size \in ImageSizes :
          CallGetBackdropUrl(path, size)
    \/ \E path \in ImagePaths, size \in ImageSizes :
          CallGetPosterUrl(path, size)
    \/ \E path \in ImagePaths, size \in ImageSizes :
          CallGetProfileUrl(path, size)
    \/ \E path \in ImagePaths, size \in ImageSizes :
          CallGetLogoUrl(path, size)
    \/ \E path \in ImagePaths, size \in ImageSizes :
          CallGetStillUrl(path, size)

NextLists ==
    \/ \E component \in Components, listTitle \in ListTitles :
          Mount(component, listTitle)
    \/ \E listTitle \in ListTitles : ChangeTitle(listTitle)
    \/ Retry
    \/ \E response \in ListResponses(MaxBanners) : ListResolves(response)
    \/ \E e \in RemoteErrors : ListRejects(e)

Next == NextCache \/ NextDetails \/ NextRemote \/ NextUtils \/ NextLists

\* the movie cache: action creators, fetchMovieDetail and the clock
SpecCache == Init /\ [][NextCache]_vars

\* the movie details: fetchMovieFullDetails, fetchMoreReviews and the reset
SpecDetails == Init /\ [][NextDetails]_vars

\* the whole store
Spec == Init /\ [][Next]_vars

\* the Remote Client beside a store that changes
SpecRemote == Init /\ [][NextRemote]_vars

\* the image helpers
SpecUtils == Init /\ [][NextUtils]_vars

\* MovieList, its variant and the banner carousel
SpecLists == Init /\ [][NextLists]_vars

\* ------------------------------------------------------------ movie cache
Key(m) == PropertyKey(Num(m))

\* the unsettled fetchMovieDetail calls for movie m
DetailCalls(m) ==
    LET mine == {c \in BagToSet(calls) :
                    c.thunk = "fetchMovieDetail" /\ c.movieId = m}
    IN  [c \in mine |-> calls[c]]

\* those of them that are waiting for an answer of the Remote Client
DetailRemoteCalls(m) ==
    LET mine == {c \in BagToSet(calls) :
                    /\ c.thunk = "fetchMovieDetail"
                    /\ c.movieId = m
                    /\ c.pc = "awaitDetails"}
    IN  [c \in mine |-> calls[c]]

\* the latest step was a call of fetchMovieDetail
DetailCalled == last.op = "fetchMovieDetail"

\* a success for movie m was dispatched less than CACHE_DURATION ago and the
\* key was neither cleared nor removed since
FreshEntry(m) ==
    /\ Key(m) \in DOMAIN fetched
    /\ now - fetched[Key(m)].at < CACHE_DURATION

\* C1: whenever two or more calls of fetchMovieDetail for one key are
\* unsettled, exactly one call of the Remote Client for that key is
\* outstanding.
C1_OneRemoteCallPerKey ==
    \A m \in MovieIds :
        BagCardinality(DetailCalls(m)) >= 2
            => BagCardinality(DetailRemoteCalls(m)) = 1

\* C2: fetchMovieDetail without forceRefresh, called for a key whose last
\* success was dispatched at t0, returns the value of that success if and only
\* if now - t0 < CACHE_DURATION.
C2_Freshness ==
    (DetailCalled /\ ~last.force /\ Key(last.movieId) \in DOMAIN fetched)
        => ((last.outcome = "resolved"
                /\ last.value = fetched[Key(last.movieId)].value)
            <=> FreshEntry(last.movieId))

\* C3: after FETCH_MOVIE_DETAIL_SUCCESS for key k with data v the store holds
\* details[k] = v, lastFetched[k] = the time of the dispatch and
\* loading[k] = false.
C3_SuccessStoresValue ==
    last.op = FETCH_MOVIE_DETAIL_SUCCESS
        => /\ Get(movieCache.details, Key(last.movieId)) = last.value
           /\ Get(movieCache.lastFetched, Key(last.movieId)) = Num(now)
           /\ Get(movieCache.loading, Key(last.movieId)) = JSFalse

\* the step is a failed fetch of movie m: FETCH_MOVIE_DETAIL_FAILURE is
\* dispatched for m, or a call of fetchMovieDetail for m is rejected
FetchFailsIn(ev, m) ==
    /\ ev.movieId = m
    /\ \/ ev.op = FETCH_MOVIE_DETAIL_FAILURE
       \/ ev.op = "fetchMovieDetail" /\ ev.outcome = "rejected"

\* C4: a step in which a fetch of key k fails leaves details[k] and
\* lastFetched[k] as they were, present or absent.
C4_FailurePreservesCache ==
    [][\A m \in MovieIds :
          FetchFailsIn(last', m)
              => /\ (Key(m) \in DOMAIN movieCache'.details)
                        <=> (Key(m) \in DOMAIN movieCache.details)
                 /\ Get(movieCache'.details, Key(m))
                        = Get(movieCache.details, Key(m))
                 /\ (Key(m) \in DOMAIN movieCache'.lastFetched)
                        <=> (Key(m) \in DOMAIN movieCache.lastFetched)
                 /\ Get(movieCache'.lastFetched, Key(m))
                        = Get(movieCache.lastFetched, Key(m))]_vars

\* a FETCH_MOVIE_DETAIL_FAILURE was dispatched for a key that has an entry
C4_Witness ==
    /\ last.op = FETCH_MOVIE_DETAIL_FAILURE
    /\ Key(last.movieId) \in DOMAIN movieCache.details
    /\ Get(movieCache.loading, Key(last.movieId)) = JSFalse

\* C5: fetchMovieDetail with forceRefresh, called while a fresh entry exists,
\* does not return the cached value and has a call of the Remote Client
\* outstanding for the key.
C5_ForcedRefreshCallsRemote ==
    (DetailCalled /\ last.force /\ FreshEntry(last.movieId))
        => /\ last.outcome # "resolved"
           /\ BagCardinality(DetailRemoteCalls(last.movieId)) >= 1

\* C6: a call of fetchMovieDetail for key k that fails leaves
\* loading[k] = false and fails with the error of the Remote Client.
C6_FailureClearsLoadingAndPropagates ==
    (DetailCalled /\ last.outcome = "rejected")
        => /\ Get(movieCache.loading, Key(last.movieId)) = JSFalse
           /\ last.value \in RemoteErrors

\* ----------------------------------------------------------- movie details
RECURSIVE PagesConcat(_, _)
\* the reviews of pages 1..j of movie m, in page order
PagesConcat(m, j) ==
    IF j = 0 THEN << >> ELSE PagesConcat(m, j - 1) \o ReviewPage(m, j)

\* the pages answered for a movie are page 1, loaded by fetchMovieFullDetails,
\* followed by pages 2..j loaded by fetchMoreReviews in ascending order, every
\* answer reporting the same totalPages N >= j
AscendingPages(h) ==
    /\ Len(h) >= 1
    /\ h[1].via = "fetchMovieFullDetails"
    /\ Len(h) <= h[1].totalPages
    /\ \A i \in 1..Len(h) :
          /\ h[i].page = i
          /\ h[i].totalPages = h[1].totalPages
          /\ i > 1 => h[i].via = "fetchMoreReviews"

\* C7: after page 1 and then pages 2..j of a movie were merged in ascending
\* order with totalPages = N, the stored items are the concatenation of the
\* pages 1..j, the stored page is j, and page < totalPages holds exactly
\* while j < N.
C7_MonotonicMerge ==
    \A m \in MovieIds :
        AscendingPages(merged[m])
            => /\ Key(m) \in DOMAIN movieDetails.reviews
               /\ LET r == movieDetails.reviews[Key(m)]
                      j == Len(merged[m])
                  IN  /\ r.items = PagesConcat(m, j)
                      /\ r.page = Num(j)
                      /\ LessThan(r.page, r.totalPages)
                            <=> (j < merged[m][1].totalPages)

\* the step dispatches FETCH_MORE_REVIEWS_SUCCESS into a reviews record that
\* exists already; the record is the one the reducer case that runs stores to
MergesIntoRecord(ev) ==
    /\ ev.op = FETCH_MORE_REVIEWS_SUCCESS
    /\ firstCaseKey([type |-> ev.op, payload |-> ev.value])
          \in DOMAIN movieDetails.reviews

MergedRecord(state, ev) ==
    state.reviews[firstCaseKey([type |-> ev.op, payload |-> ev.value])]

\* C8: a merge of page p > currentPage + 1 leaves the items and the page of
\* the record unchanged.
C8_OutOfOrderRejected ==
    [][(/\ MergesIntoRecord(last')
        /\ LessThan(Num(MergedRecord(movieDetails, last').page.n + 1),
                    last'.value.page))
          => /\ MergedRecord(movieDetails', last').items
                    = MergedRecord(movieDetails, last').items
             /\ MergedRecord(movieDetails', last').page
                    = MergedRecord(movieDetails, last').page]_vars

\* C9: a merge of page p <= currentPage leaves the items of the record
\* unchanged and does not lower its page.
C9_RemergeKeepsItems ==
    [][(/\ MergesIntoRecord(last')
        /\ ~LessThan(MergedRecord(movieDetails, last').page,
                     last'.value.page))
          => /\ MergedRecord(movieDetails', last').items
                    = MergedRecord(movieDetails, last').items
             /\ ~LessThan(MergedRecord(movieDetails', last').page,
                          MergedRecord(movieDetails, last').page)]_vars

\* C10: every stored reviews record has a page that is a number >= 1 and does
\* not exceed its totalPages.
C10_PageWithinTotal ==
    \A k \in DOMAIN movieDetails.reviews :
        LET r == movieDetails.reviews[k]
        IN  /\ r.page.kind = "number"
            /\ r.page.n >= 1
            /\ r.totalPages.kind = "number"
            /\ r.page.n <= r.totalPages.n

\* ------------------------------------------------- movie cache, continued
\* a call of fetchMovieDetail for movie m waits for the Remote Client in bag b
AwaitsRemote(b, m) ==
    \E c \in BagToSet(b) :
        c.thunk = "fetchMovieDetail" /\ c.movieId = m /\ c.pc = "awaitDetails"

\* movie m was cleared or removed by the latest step
JustRemoved(ev, m) ==
    \/ ev.op = CLEAR_MOVIE_CACHE
    \/ ev.op = REMOVE_FROM_CACHE /\ ev.movieId = m

\* C11: CLEAR_MOVIE_CACHE leaves no detail and no timestamp; REMOVE_FROM_CACHE
\* of k leaves none for k and the entries of every other key as they were;
\* and the next fetchMovieDetail without forceRefresh for the removed key does
\* not return a cached value but has a Remote Client call outstanding.
C11_ClearAndEvict ==
    [][/\ last'.op = CLEAR_MOVIE_CACHE
            => /\ DOMAIN movieCache'.details = {}
               /\ DOMAIN movieCache'.lastFetched = {}
       /\ \A m \in MovieIds :
            (last'.op = REMOVE_FROM_CACHE /\ last'.movieId = m)
                => /\ Key(m) \notin DOMAIN movieCache'.details
                   /\ Key(m) \notin DOMAIN movieCache'.lastFetched
                   /\ Rest(movieCache'.details, Key(m))
                          = Rest(movieCache.details, Key(m))
                   /\ Rest(movieCache'.lastFetched, Key(m))
                          = Rest(movieCache.lastFetched, Key(m))
       /\ \A m \in MovieIds :
            (/\ JustRemoved(last, m)
             /\ last'.op = "fetchMovieDetail"
             /\ last'.movieId = m
             /\ ~last'.force)
                => /\ last'.outcome # "resolved"
                   /\ AwaitsRemote(calls', m)]_vars

\* C13: a call of fetchMovieDetail that has settled either failed with an
\* error of the Remote Client or ended with a value cached for the key and
\* loading[k] = false; no other failure exists, so a retry during which the
\* Remote Client succeeds ends in Success.
C13_RecoverableByRetry ==
    last.op = "settled"
        => \/ last.outcome = "rejected" /\ last.value \in RemoteErrors
           \/ /\ last.outcome = "resolved"
              /\ Key(last.movieId) \in DOMAIN movieCache.details
              /\ Get(movieCache.loading, Key(last.movieId)) = JSFalse

\* C18: after a call of fetchMovieDetail that is not answered from the cache,
\* loading[k] is true and exactly one Remote Client call for k is outstanding;
\* and loading[k] is true whenever such a call is outstanding.
C18_RequestThenRemoteCall ==
    /\ (DetailCalled /\ last.outcome # "resolved")
          => /\ Get(movieCache.loading, Key(last.movieId)) = JSTrue
             /\ BagCardinality(DetailRemoteCalls(last.movieId)) = 1
    /\ \A m \in MovieIds :
          AwaitsRemote(calls, m)
              => Get(movieCache.loading, Key(m)) = JSTrue

\* C19: FETCH_MOVIE_DETAIL_REQUEST for key k is not dispatched in a state in
\* which loading[k] is true, and a call of fetchMovieDetail made while
\* loading[k] is true does not fail on its own: it fails only with an error of
\* the Remote Client.
C19_NoLoadingToLoading ==
    [][/\ \A m \in MovieIds :
          (last'.op = FETCH_MOVIE_DETAIL_REQUEST /\ last'.movieId = m)
              => Get(movieCache.loading, Key(m)) # JSTrue
       /\ \A m \in MovieIds :
          (/\ last'.op = "fetchMovieDetail"
           /\ last'.movieId = m
           /\ Get(movieCache.loading, Key(m)) = JSTrue)
              => last'.outcome # "rejected" \/ last'.value \in RemoteErrors]_vars

CurrentKey(state) == PropertyKey(Get(state.current, "id"))

\* C12: CLEAR_CURRENT_MOVIE drops the reviews record of the current movie,
\* and no other action removes a stored reviews record.
C12_ResetDropsReviews ==
    [][/\ (/\ last'.op = CLEAR_CURRENT_MOVIE
           /\ movieDetails.current # Null
           /\ CurrentKey(movieDetails) \in DOMAIN movieDetails.reviews)
             => CurrentKey(movieDetails) \notin DOMAIN movieDetails'.reviews
       /\ last'.op # CLEAR_CURRENT_MOVIE
             => DOMAIN movieDetails.reviews
                    \subseteq DOMAIN movieDetails'.reviews]_vars

\* ------------------------------------------------------------ Remote Client
\* the keys of the query of the request
QueryKeys(h) ==
    {h.url.searchParams[i].key : i \in DOMAIN h.url.searchParams}

\* the entries of params that have a value
Defined(params) ==
    {i \in DOMAIN params : params[i].value \notin {Undefined, Null}}

\* the response is a failure: the transport failed or the status is not 2xx
Failed(h) ==
    \/ h.response.arrived = "failed"
    \/ h.response.arrived = "yes" /\ h.response.status \notin 200..299

\* C14: every step of makeRequest leaves the store as it was and the call with
\* exactly one fetch performed; when the transport fails or the status is not
\* 2xx the call has thrown an error of the Remote Client and holds no value.
C14_NoRetryAndFailureReported ==
    [][http' # http
          => /\ movieCache' = movieCache
             /\ movieDetails' = movieDetails
             /\ http'.fetches = 1
             /\ Failed(http')
                   => /\ http'.pc = "thrown"
                      /\ http'.value = Undefined
                      /\ http'.error \in RemoteErrors]_vars

\* a call of makeRequest has thrown on a status that is not 2xx, beside a
\* store that has changed
C14_Witness ==
    /\ http.pc = "thrown"
    /\ http.response.arrived = "yes"
    /\ http.response.status = 404
    /\ http.fetches = 1
    /\ movieCache # movieCacheInitialState

\* C15: the query of a GET request holds api_key and, for every entry of
\* params whose value is neither null nor undefined, the key with the value as
\* a string, and nothing else; 0, false and "" are kept.
C15_GetQueryParams ==
    (http.pc # "idle" /\ http.method = "GET")
        => /\ QueryKeys(http)
                = {"api_key"}
                    \cup {http.params[i].key : i \in Defined(http.params)}
           /\ Len(http.url.searchParams)
                = 1 + Cardinality(Defined(http.params))
           /\ [key |-> "api_key", value |-> apiKey]
                = http.url.searchParams[1]
           /\ \A i \in Defined(http.params) :
                \E j \in DOMAIN http.url.searchParams :
                    /\ http.url.searchParams[j].key = http.params[i].key
                    /\ http.url.searchParams[j].value
                         = (CASE http.params[i].value = Num(0) -> "0"
                              [] http.params[i].value = JSFalse -> "false"
                              [] http.params[i].value = Text("") -> ""
                              [] OTHER -> JSString(http.params[i].value))

\* a GET request whose params hold a null value, which is left out, and a 0,
\* which is kept
C15_Witness ==
    /\ http.pc # "idle"
    /\ http.method = "GET"
    /\ http.params = <<Param("language", Null), Param("page", Num(0))>>
    /\ http.url.searchParams
         = <<[key |-> "api_key", value |-> apiKey],
             [key |-> "page", value |-> "0"]>>

\* C16: every request, whatever its method, carries api_key in the query and
\* in the Authorization header, and carries every parameter of the caller
\* that has a value.
C16_CredentialAndParamsOnEveryMethod ==
    http.pc # "idle"
        => /\ \E j \in DOMAIN http.url.searchParams :
                  http.url.searchParams[j]
                      = [key |-> "api_key", value |-> apiKey]
           /\ http.options.headers.Authorization = "Bearer " \o apiKey
           /\ \A i \in Defined(http.params) :
                  http.params[i].key \in QueryKeys(http)

\* ----------------------------------------------------------------- utils
FalsyPaths == {Undefined, Null, Text(""), Num(0), JSFalse, NaN}

\* imageBase + '/' + size + path
ImageUrl(size, path) ==
    Text("https://image.tmdb.org/t/p" \o "/" \o JSString(size)
             \o JSString(path))

\* the size each helper uses when the caller gives none
OwnDefaultSize(fn) ==
    CASE fn = "getBackdropUrl" -> Text("w1280")
      [] fn \in {"getProfileUrl", "getLogoUrl"} -> Text("w185")
      [] fn = "getStillUrl" -> Text("w300")
      [] OTHER -> Text("w500")

\* C17 as stated: every helper returns null for a falsy path and otherwise
\* what getImageUrl returns for the same arguments, which is
\* imageBase + '/' + size + path.
C17_SameAsGetImageUrl ==
    img.fn # "none"
        => /\ img.path \in FalsyPaths => img.result = Null
           /\ img.path \notin FalsyPaths
                 => img.result
                      = ImageUrl(DefaultParam(img.size, Text("w500")),
                                 img.path)
           /\ img.result = getImageUrl(img.path, img.size)

\* C17: every helper returns null for a falsy path and otherwise
\* imageBase + '/' + size + path, where size is the size given or, when none
\* is given, the helper's own default; with a size given every helper returns
\* what getImageUrl returns.
C17_ImageUrlWithOwnDefault ==
    img.fn # "none"
        => /\ img.path \in FalsyPaths => img.result = Null
           /\ img.path \notin FalsyPaths
                 => img.result
                      = ImageUrl(DefaultParam(img.size,
                                              OwnDefaultSize(img.fn)),
                                 img.path)
           /\ img.size # Undefined
                 => img.result = getImageUrl(img.path, img.size)

\* getBackdropUrl called without a size has answered with its own default
C17_Witness ==
    /\ img.fn = "getBackdropUrl"
    /\ img.path = Text("/abc.jpg")
    /\ img.size = Undefined
    /\ img.result = Text("https://image.tmdb.org/t/p/w1280/abc.jpg")

C26_MapsAligned ==
    \A m \in MovieIds :
        /\ (Key(m) \in DOMAIN movieCache.details)
              <=> (Key(m) \in DOMAIN movieCache.lastFetched)
        /\ Key(m) \in DOMAIN movieCache.details
              => /\ Key(m) \in DOMAIN fetched
                 /\ Get(movieCache.lastFetched, Key(m))
                        = Num(fetched[Key(m)].at)

\* the action types each reducer has a case for
CacheTypes ==
    {FETCH_MOVIE_DETAIL_REQUEST, FETCH_MOVIE_DETAIL_SUCCESS,
     FETCH_MOVIE_DETAIL_FAILURE, CLEAR_MOVIE_CACHE, REMOVE_FROM_CACHE}

DetailsTypes ==
    {FETCH_MOVIE_FULL_DETAILS_REQUEST, FETCH_MOVIE_FULL_DETAILS_FAILURE,
     FETCH_MORE_REVIEWS_REQUEST, FETCH_MORE_REVIEWS_SUCCESS,
     FETCH_MORE_REVIEWS_FAILURE, CLEAR_CURRENT_MOVIE}

\* every action type of the store, and one that no reducer knows
AllTypes ==
    CacheTypes \cup DetailsTypes
        \cup {FETCH_MOVIE_FULL_DETAILS_SUCCESS, "@@redux/PROBE_UNKNOWN_ACTION"}

\* the entry of key k in a map of the movieCache state
Entry(map, k) == [present |-> k \in DOMAIN map, value |-> Get(map, k)]

\* C27: a request, success, failure or removal for key k leaves the entries
\* of every other key in details, lastFetched and loading as they were, and
\* an action of a type a reducer has no case for leaves the state of that
\* reducer as it was.
C27_KeysIndependent ==
    [][/\ \A m \in MovieIds :
            (/\ last'.op \in CacheTypes \ {CLEAR_MOVIE_CACHE}
             /\ last'.movieId = m)
                => \A j \in MovieIds \ {m} :
                      /\ Entry(movieCache'.details, Key(j))
                            = Entry(movieCache.details, Key(j))
                      /\ Entry(movieCache'.lastFetched, Key(j))
                            = Entry(movieCache.lastFetched, Key(j))
                      /\ Entry(movieCache'.loading, Key(j))
                            = Entry(movieCache.loading, Key(j))
       /\ last'.op \in CacheTypes => movieDetails' = movieDetails
       /\ \A t \in AllTypes \ CacheTypes :
            movieCacheReducer(movieCache', [type |-> t, payload |-> Undefined])
                = movieCache'
       /\ \A t \in AllTypes \ DetailsTypes :
            movieDetailsReducer(movieDetails',
                                [type |-> t, payload |-> Undefined])
                = movieDetails']_vars

\* a request for key 1 was dispatched while key 2 is loading and has an entry
C27_Witness ==
    /\ last.op = FETCH_MOVIE_DETAIL_REQUEST
    /\ last.movieId = 1
    /\ Get(movieCache.loading, Key(2)) = JSTrue
    /\ Key(2) \in DOMAIN movieCache.details
    /\ Get(movieCache.loading, Key(1)) = JSTrue

\* --------------------------------------------- movie details, continued
\* s is a prefix of t
IsPrefix(s, t) == Len(s) <= Len(t) /\ SubSeq(t, 1, Len(s)) = s

\* a call of the given thunk is outstanding in bag b
Outstanding(b, thunk) == \E c \in BagToSet(b) : c.thunk = thunk

\* C22: after fetchMovieFullDetails(m) succeeded, current is the payload of
\* the fetched details, reviews[m] holds the reviews of page 1 with page 1
\* and the total_pages of the remote, and loading is false.
C22_FirstPageCreated ==
    last.op = FETCH_MOVIE_FULL_DETAILS_SUCCESS
        => /\ movieDetails.current = last.value
           /\ Key(last.movieId) \in DOMAIN movieDetails.reviews
           /\ movieDetails.reviews[Key(last.movieId)]
                 = [items |-> ReviewPage(last.movieId, 1),
                    page |-> Num(1),
                    totalPages |-> last.value.reviewsTotalPages]
           /\ movieDetails.loading = JSFalse

\* C23: every step other than CLEAR_CURRENT_MOVIE keeps every stored reviews
\* record, and the items stored before the step are a prefix of the items
\* stored after it.
C23_AppendOnlyItems ==
    [][last'.op # CLEAR_CURRENT_MOVIE
          => \A k \in DOMAIN movieDetails.reviews :
                /\ k \in DOMAIN movieDetails'.reviews
                /\ IsPrefix(movieDetails.reviews[k].items,
                            movieDetails'.reviews[k].items)]_vars

\* C24: a fetchMoreReviews call that completes while the call for the page
\* before it is still outstanding leaves the reviews as they were, and the
\* items of every stored record are the pages 1..j of one movie in ascending
\* order.
C24_OutOfOrderDropped ==
    [][/\ (/\ last'.op = FETCH_MORE_REVIEWS_SUCCESS
           /\ \E c \in BagToSet(calls') :
                 /\ c.thunk = "fetchMoreReviews"
                 /\ c.movieId = last'.movieId
                 /\ c.page + 1 = last'.page)
             => movieDetails'.reviews = movieDetails.reviews
       /\ \A k \in DOMAIN movieDetails'.reviews :
             \E m \in MovieIds, j \in 0..MaxPage :
                 movieDetails'.reviews[k].items = PagesConcat(m, j)]_vars

\* C28: the loading flag is not true while no call of fetchMovieFullDetails
\* is outstanding.
C28_FullLoadingEnds ==
    ~Outstanding(calls, "fetchMovieFullDetails")
        => movieDetails.loading # JSTrue

\* C29: reviewsLoading is true while a call of fetchMoreReviews is
\* outstanding and false while none is, and a failed fetchMoreReviews leaves
\* the stored reviews as they were.
C29_ReviewsLoadingTracks ==
    [][/\ Outstanding(calls', "fetchMoreReviews")
             => movieDetails'.reviewsLoading = JSTrue
       /\ ~Outstanding(calls', "fetchMoreReviews")
             => movieDetails'.reviewsLoading = JSFalse
       /\ last'.op = FETCH_MORE_REVIEWS_FAILURE
             => movieDetails'.reviews = movieDetails.reviews]_vars

\* ---------------------------------------------------------- list components
\* the entries of the array a response yields: its results when they are an
\* array, the response itself when it is one
YieldsArray(r) ==
    \/ r.kind = "array"
    \/ r.kind = "paged" /\ r.results.kind = "array"

Entries(r) == IF r.kind = "array" THEN r.items ELSE r.results.items

\* the response yields an array with an entry that has a backdrop image
Usable(r) ==
    /\ YieldsArray(r)
    /\ \E i \in DOMAIN Entries(r) : Entries(r)[i].backdrop_path.kind = "text"

TitleEndpoint(listTitle) ==
    CASE listTitle = "Now Playing" -> "/movie/now_playing"
      [] listTitle = "Upcoming Releases" -> "/movie/upcoming"
      [] listTitle = "Popular Movies" -> "/movie/popular"
      [] listTitle = "Top Rated" -> "/movie/top_rated"

\* C30: a fetch that MovieList or its variant starts for one of the four
\* list titles requests the endpoint the title names.
C30_TitleNamesTheList ==
    (/\ view.component \in {"MovieList", "MovieListVariant"}
     /\ view.step \in {"mount", "props", "retry"}
     /\ view.prop \in ListTitles \ {"Trending"})
        => view.endpoint = TitleEndpoint(view.prop)

====
